---- MODULE Spec2Model ----
(***************************************************************************)
(* LineProtocolCache: a SQLite-backed write buffer between metric          *)
(* producers and InfluxDB.                                                 *)
(*                                                                         *)
(*   - the cache file: table LineProtocolCache (line_protocol TEXT NOT     *)
(*     NULL), rows addressed by SQLite's implicit rowid;                   *)
(*   - LineProtocolCacheUploader (lineprotocolcacheuploader.py): run()     *)
(*     counts, waits, selects a batch, writes it to every destination and  *)
(*     deletes it;                                                         *)
(*   - LineProtocolCache (lineprotocolcache.py): put() enqueues into a     *)
(*     process-wide Queue that a thread drains into the cache file.        *)
(*                                                                         *)
(* A line protocol string is modelled by a number that is unique per put   *)
(* item (1, 2, 3, ... in the order the items were handed over), so a       *)
(* record can be followed through queue, store and destinations.           *)
(***************************************************************************)
EXTENDS Integers, Sequences, FiniteSets, TLC

(* ---------------------------- bounds ---------------------------------- *)

\* Line protocols ever handed to the producers.
MaxRecords == 4
\* Longest list one direct put() call inserts.
MaxPut == 2
\* --batch_size of the uploader.
BatchSize == 2
\* Number of configured destinations (--urls, --buckets, --tokens, --orgs).
NDest == 2
\* Times one uploader process is started (main) in a behaviour.
MaxStarts == 3

\* Uploader processes that can work on the one cache file.
Uploaders == {1, 2}
Dests == 1..NDest
Records == 1..MaxRecords

VARIABLES
  store,        \* the table: sequence of rows [rowid, lp], ascending rowid
  assigned,     \* the rowids the table has given to rows so far (history)
  lastError,    \* uploader -> the storage statement that raised in its run
  nextRec,      \* next line protocol the producers hand over
  upc,          \* uploader -> position in main/run
  stop,         \* uploader -> stop_running.is_set()
  count,        \* uploader -> local `count` of run
  waitArg,      \* uploader -> which interval the last stop_running.wait got
  rows,         \* uploader -> local `rows` of run: sequence of [rowid, lp]
  calls,        \* uploader -> write_api.write calls of the cycle, in order
  starts,       \* uploader -> number of times main was started
  written,      \* destination -> line protocols accepted, in order (history)
  deliveredBy,  \* uploader -> line protocols it wrote to every destination
  deletedBy,    \* uploader -> line protocols whose row it deleted
  stopInWait,   \* uploader -> stop_running was set during the pacing wait
  selAfterStop, \* uploader -> _get_rows calls made with stop_running set
  failed,       \* uploader -> the cycle that raised last: [rows, dest]
  queue,        \* LineProtocolCache._QUEUE, oldest first
  isOpen,       \* LineProtocolCache._IS_QUEUE_OPEN.is_set()
  stopThread,   \* self._stop_thread.is_set()
  tpc,          \* position of the LineProtocolCache thread in _drain_queue
  trows,        \* the thread's local `rows`
  apc,          \* position of the thread that owns the with-block
  ppc,          \* position of the thread that calls put
  pitems,       \* the items of the running put call, as line protocols
  pdone,        \* how many of them the call has enqueued
  putDone,      \* line protocols of the put calls that returned, in order
  rejected,     \* line protocols of the put calls that raised
  atExit,       \* putDone when __exit__ was called
  insertFailed, \* an INSERT of the thread raised
  ticked,       \* a commit interval elapsed (the wait timed out)
  hconn,        \* Producer._connection is not None
  hlast,        \* outcome of the last call on the Producer object
  cfg,          \* the field values given to LineProtocolCacheConfig
  cfgState,     \* "new", "ok" (constructed) or "rejected" (AssertionError)
  maxRowid,     \* what the last Consumer.max_rowid call returned: <<>> is None
  maxRowidCalls, \* parity of the number of max_rowid calls made
  tsRange,      \* the TimestampRange to migrate: [start, stop]
  step,         \* the Duration given as step (--time_range_increment)
  it,           \* the TimestampRangeIterator: [state, i, n]
  windows,      \* the windows __next__ has returned, in order
  mpc,          \* position of MigrationActuator.run
  current,      \* run's current_range: <<>> or <<window>>
  stopEvent,    \* stop_event.is_set()
  seenStop,     \* what the last stop_event.is_set() of run returned
  copied,       \* the windows given to copy_to_bucket, in order
  qpc,          \* position of one BucketClient.execute_query call
  attempts,     \* its attempts so far: 0 a success, else the exception raised
  qout,         \* what the call gave its caller: <<>>, or <<attempt>> whose
                \* result was returned or whose exception was raised
  ppcB,         \* position of a second thread that calls put
  pitemsB,      \* the items of its running put call
  pdoneB,       \* how many of them the call has enqueued
  putDoneB,     \* line protocols of its put calls that returned, in order
  atExitB,      \* putDoneB when __exit__ was called
  unfinished,   \* _QUEUE.unfinished_tasks
  taskDone,     \* number of _QUEUE.task_done() calls made
  apcB,         \* position of the owner of a second LineProtocolCache scope
  tpcB,         \* position of the thread of the second scope
  stopThreadB,  \* its self._stop_thread.is_set()
  trowsB        \* its local `rows`

uvars == <<upc, stop, count, waitArg, rows, calls, starts, written,
           deliveredBy, deletedBy, stopInWait, selAfterStop, failed>>
cvars == <<queue, isOpen, stopThread, tpc, trows, apc, ppc, pitems, pdone,
           putDone, rejected, atExit, insertFailed, ticked>>
pvars == <<hconn, hlast, cfg, cfgState>>
avars == <<maxRowid, maxRowidCalls>>
mvars == <<tsRange, step, it, windows, mpc, current, stopEvent, seenStop,
           copied>>
rvars == <<qpc, attempts, qout>>
qvars == <<ppcB, pitemsB, pdoneB, putDoneB, atExitB, unfinished, taskDone>>
svars == <<apcB, tpcB, stopThreadB, trowsB>>
xvars == <<avars, mvars, rvars, qvars, svars>>
exceptAvars == <<mvars, rvars, qvars, svars>>
exceptMvars == <<avars, rvars, qvars, svars>>
exceptRvars == <<avars, mvars, qvars, svars>>
exceptQvars == <<avars, mvars, rvars, svars>>
exceptSvars == <<avars, mvars, rvars>>
\* The first scope's own variables and the threads that call put.
scopeAvars == <<stopThread, tpc, trows, apc, ppc, pitems, pdone, putDone,
                rejected, atExit, insertFailed, ticked, ppcB, pitemsB, pdoneB,
                putDoneB, atExitB>>
vars == <<store, assigned, lastError, nextRec, uvars, pvars, cvars, xvars>>

(* ------------------------ the cache file ------------------------------ *)

Max(S) == CHOOSE x \in S : \A y \in S : y <= x
Min(S) == CHOOSE x \in S : \A y \in S : x <= y

RowIds(t) == {t[i].rowid : i \in 1..Len(t)}
Lps(t) == {t[i].lp : i \in 1..Len(t)}
LpSeq(t) == [i \in 1..Len(t) |-> t[i].lp]

\* The table has no INTEGER PRIMARY KEY AUTOINCREMENT column: SQLite gives a
\* new row the rowid "one more than the largest rowid in the table", 1 when
\* the table is empty.
NewRowId(t) == IF Len(t) = 0 THEN 1 ELSE Max(RowIds(t)) + 1

RECURSIVE InsertMany(_, _)
\* INSERT_ROW run by executemany inside one transaction.
InsertMany(t, lps) ==
  IF Len(lps) = 0 THEN t
  ELSE InsertMany(Append(t, [rowid |-> NewRowId(t), lp |-> Head(lps)]), Tail(lps))

\* Variant: ORDER BY rowid DESC.
SelectRowsDescending(t, limit) ==
  [i \in 1..(IF Len(t) < limit THEN Len(t) ELSE limit) |-> t[Len(t) + 1 - i]]

\* Variant: the newest rows instead of the oldest.
SelectNewestRows(t, limit) ==
  SubSeq(t, IF Len(t) < limit THEN 1 ELSE Len(t) - limit + 1, Len(t))

\* Variant: fetchall instead of fetchmany(batch_size).
SelectAllRows(t, limit) == t

\* _SELECT_ROWS followed by fetchmany(batch_size): the table scan yields the
\* rows by ascending rowid.
SelectRows(t, limit) == SubSeq(t, 1, IF Len(t) < limit THEN Len(t) ELSE limit)

\* Variant: DELETE ... WHERE rowid <= the largest given rowid.
DeleteRowsUpTo(t, ids) == SelectSeq(t, LAMBDA r : ids = {} \/ r.rowid > Max(ids))

\* Variant: DELETE without the WHERE clause.
DeleteAllRows(t, ids) == <<>>

\* Variant: only the first of the given rowids is deleted.
DeleteFirstRowOnly(t, ids) ==
  SelectSeq(t, LAMBDA r : ids = {} \/ r.rowid # Min(ids))

\* Variant: DELETE ... WHERE rowid >= the smallest given rowid.
DeleteRowsFrom(t, ids) == SelectSeq(t, LAMBDA r : ids = {} \/ r.rowid < Min(ids))

\* _DELETE_ROW run by executemany inside one transaction: WHERE rowid = ?.
DeleteRows(t, ids) == SelectSeq(t, LAMBDA r : r.rowid \notin ids)

\* _COUNT.
Count(t) == Len(t)

\* What the line_protocol column of a row holds when it is not a str (SQLite
\* stores a BLOB or NULL-free non-text value as it is given).
NotText == 0

\* _get_rows: isinstance(raw_row, tuple) and len(raw_row) == 2 and
\* isinstance(raw_row[0], int) and isinstance(raw_row[1], str).
ValidRow(r) == r.lp # NotText

\* Variant: the rows inserted before the statement that raised stay.
AfterFailedInsertPartial(t, partial) == partial

\* `with connection:` around executemany(INSERT_ROW): an exception rolls the
\* transaction back; t is the table before it, partial the table with the
\* rows inserted up to the statement that raised.
AfterFailedInsert(t, partial) == t

\* Variant: the rows deleted before the statement that raised stay deleted.
AfterFailedDeletePartial(t, ids) == DeleteFirstRowOnly(t, ids)

\* `with self._connection:` around executemany(_DELETE_ROW): an exception
\* rolls the transaction back.
AfterFailedDelete(t, ids) == t

(* ------------------------ direct producer ----------------------------- *)

NewLps(n) == [i \in 1..n |-> nextRec + i - 1]

\* Producer.put: executemany(INSERT_ROW) and commit, one transaction.
Put ==
  \E n \in 1..MaxPut :
    /\ nextRec + n - 1 <= MaxRecords
    /\ store' = InsertMany(store, NewLps(n))
    /\ assigned' = assigned \cup RowIds(InsertMany(store, NewLps(n)))
    /\ nextRec' = nextRec + n
    /\ UNCHANGED <<xvars, lastError, uvars, pvars, cvars>>

\* Producer.put: executemany raises after k of the n rows (a value SQLite
\* refuses, a full disk, a lock not obtained in time); the caller sees the
\* exception.
PutFail ==
  \E n \in 1..MaxPut : \E k \in 0..(n - 1) :
    /\ nextRec + n - 1 <= MaxRecords
    /\ store' = AfterFailedInsert(store, InsertMany(store, SubSeq(NewLps(n), 1, k)))
    /\ rejected' = rejected \cup {NewLps(n)[i] : i \in 1..n}
    /\ nextRec' = nextRec + n
    /\ UNCHANGED <<xvars, assigned, lastError, uvars, pvars, queue, isOpen, stopThread, tpc,
                   trows, apc, ppc, pitems, pdone, putDone, atExit,
                   insertFailed, ticked>>

\* Another program writes a row whose line_protocol is not text into the
\* cache file.
Corrupt ==
  /\ \A i \in 1..Len(store) : ValidRow(store[i])
  /\ store' = Append(store, [rowid |-> NewRowId(store), lp |-> NotText])
  /\ assigned' = assigned \cup {NewRowId(store)}
  /\ UNCHANGED <<xvars, lastError, nextRec, uvars, pvars, cvars>>

\* Another program deletes rows of the cache file by rowid (Consumer.delete
\* of the consumer package: executemany(DELETE_ROW) in one transaction).
OtherDelete ==
  \E ids \in (SUBSET RowIds(store)) \ {{}} :
    /\ store' = DeleteRows(store, ids)
    /\ UNCHANGED <<xvars, assigned, lastError, nextRec, uvars, pvars, cvars>>

(* ------------------------ Consumer.max_rowid -------------------------- *)

\* Variant: the largest rowid the table has ever given out.
SelectMaxRowidEverAssigned(t) ==
  IF assigned = {} THEN <<>> ELSE <<Max(assigned)>>

\* SELECT_MAX_ROWID, fetchall, row[0]: MAX(rowid) is NULL (None) for a table
\* without rows; the result is an option, <<>> for None.
SelectMaxRowid(t) == IF Len(t) = 0 THEN <<>> ELSE <<Max(RowIds(t))>>

\* Consumer.max_rowid on an entered Consumer (self._connection is not None):
\* one SELECT inside `with self._connection:`.
MaxRowid ==
  /\ maxRowid' = SelectMaxRowid(store)
  /\ maxRowidCalls' = 1 - maxRowidCalls
  /\ UNCHANGED <<store, assigned, lastError, nextRec, uvars, pvars, cvars,
                 exceptAvars>>

(* ------------------------- Producer (direct) -------------------------- *)

\* Variant: put and __exit__ without the test of the connection.
HasConnectionAlways == TRUE

\* Producer.put, Producer.__exit__: self._connection is not None.
HasConnection == hconn

\* Producer.__enter__: connect, CREATE_TABLE, ENABLE_WAL.
ProducerEnter ==
  /\ ~hconn
  /\ hconn' = TRUE
  /\ hlast' = "enter"
  /\ UNCHANGED <<xvars, store, assigned, lastError, nextRec, uvars, cvars, cfg, cfgState>>

\* Producer.put: ValueError without a connection, else executemany and
\* commit (`with self._connection:`) before it returns.
ProducerPut ==
  \E n \in 1..MaxPut :
    /\ nextRec + n - 1 <= MaxRecords
    /\ nextRec' = nextRec + n
    /\ IF HasConnection
         THEN /\ store' = InsertMany(store, NewLps(n))
              /\ assigned' = assigned \cup RowIds(InsertMany(store, NewLps(n)))
              /\ hlast' = "put"
         ELSE /\ hlast' = "put_raised"
              /\ UNCHANGED <<store, assigned>>
    /\ UNCHANGED <<xvars, lastError, uvars, cvars, hconn, cfg, cfgState>>

\* Variant: __exit__ without a connection returns quietly.
ExitUnopenedIgnored == "exit"

\* Producer.__exit__: if self._connection is None: raise ValueError(...).
ExitUnopened == "exit_raised"

\* Producer.__exit__: close the connection and forget it.
ProducerExit ==
  /\ hlast' = IF HasConnection THEN "exit" ELSE ExitUnopened
  /\ hconn' = FALSE
  /\ UNCHANGED <<xvars, store, assigned, lastError, nextRec, uvars, cvars, cfg, cfgState>>

(* --------------------- LineProtocolCacheUploader ---------------------- *)

NoFailure == [rows |-> <<>>, dest |-> 0]

\* main: with LineProtocolCacheUploader() as uploader, a fresh Event, run.
\* A process that ended (run returned or raised) can be started again.
Main(u) ==
  /\ UNCHANGED <<xvars, cvars, pvars>>
  /\ upc[u] \in {"off", "raised", "returned"}
  /\ starts[u] < MaxStarts
  /\ starts' = [starts EXCEPT ![u] = @ + 1]
  /\ upc' = [upc EXCEPT ![u] = "loop"]
  /\ stop' = [stop EXCEPT ![u] = FALSE]
  /\ count' = [count EXCEPT ![u] = 0]
  /\ waitArg' = [waitArg EXCEPT ![u] = "none"]
  /\ rows' = [rows EXCEPT ![u] = <<>>]
  /\ calls' = [calls EXCEPT ![u] = <<>>]
  /\ stopInWait' = [stopInWait EXCEPT ![u] = FALSE]
  /\ selAfterStop' = [selAfterStop EXCEPT ![u] = 0]
  /\ lastError' = [lastError EXCEPT ![u] = "none"]
  /\ UNCHANGED <<store, assigned, nextRec, written, deliveredBy, deletedBy, failed>>

\* The SIGTERM handler of main: stop_running.set().
Stop(u) ==
  /\ UNCHANGED <<xvars, cvars, pvars>>
  /\ upc[u] \notin {"off", "raised", "returned"}
  /\ ~stop[u]
  /\ stop' = [stop EXCEPT ![u] = TRUE]
  /\ stopInWait' = [stopInWait EXCEPT ![u] = (upc[u] = "wait")]
  /\ UNCHANGED <<store, assigned, lastError, nextRec, upc, count, waitArg, rows, calls, starts,
                 written, deliveredBy, deletedBy, selAfterStop, failed>>

\* run: while not stop_running.is_set().
LoopTest(u) ==
  /\ UNCHANGED <<xvars, cvars, pvars>>
  /\ upc[u] = "loop"
  /\ upc' = [upc EXCEPT ![u] = IF stop[u] THEN "returned" ELSE "count"]
  /\ UNCHANGED <<store, assigned, lastError, nextRec, stop, count, waitArg, rows, calls, starts,
                 written, deliveredBy, deletedBy, stopInWait, selAfterStop,
                 failed>>

\* Variant: catching up from count = batch_size on.
WaitIntervalFromBatchSize(c) == IF c >= BatchSize THEN "catching_up" ELSE "upload"

\* run: if count > batch_size: catching-up interval, else upload interval.
WaitInterval(c) == IF c > BatchSize THEN "catching_up" ELSE "upload"

\* run: count = self._get_count() and the choice of the interval.
GetCount(u) ==
  /\ UNCHANGED <<xvars, cvars, pvars>>
  /\ upc[u] = "count"
  /\ count' = [count EXCEPT ![u] = Count(store)]
  /\ waitArg' = [waitArg EXCEPT ![u] = WaitInterval(Count(store))]
  /\ upc' = [upc EXCEPT ![u] = "wait"]
  /\ UNCHANGED <<store, assigned, lastError, nextRec, stop, rows, calls, starts, written,
                 deliveredBy, deletedBy, stopInWait, selAfterStop, failed>>

\* Variant: the event is tested after the wait and ends the cycle.
AfterWaitTestsStop(u) == IF stop[u] THEN "loop" ELSE "select"

\* What run does when stop_running.wait returns (timeout, or the event set).
AfterWait(u) == "select"

\* run: stop_running.wait(interval) returns.
Wait(u) ==
  /\ UNCHANGED <<xvars, cvars, pvars>>
  /\ upc[u] = "wait"
  /\ upc' = [upc EXCEPT ![u] = AfterWait(u)]
  /\ count' = [count EXCEPT ![u] = 0]           \* dead from here on
  /\ waitArg' = [waitArg EXCEPT ![u] = "none"]
  /\ UNCHANGED <<store, assigned, lastError, nextRec, stop, rows, calls, starts, written,
                 deliveredBy, deletedBy, stopInWait, selAfterStop, failed>>

\* run: rows = self._get_rows().
GetRows(u) ==
  /\ UNCHANGED <<xvars, cvars, pvars>>
  /\ upc[u] = "select"
  /\ \A i \in 1..Len(SelectRows(store, BatchSize)) :
       ValidRow(SelectRows(store, BatchSize)[i])
  /\ rows' = [rows EXCEPT ![u] = SelectRows(store, BatchSize)]
  /\ calls' = [calls EXCEPT ![u] = <<>>]
  /\ selAfterStop' = [selAfterStop EXCEPT ![u] = IF stop[u] THEN @ + 1 ELSE @]
  /\ upc' = [upc EXCEPT ![u] = "upload"]
  /\ UNCHANGED <<store, assigned, lastError, nextRec, stop, count, waitArg, starts, written,
                 deliveredBy, deletedBy, stopInWait, failed>>

\* Variant: no test for an empty batch.
NothingToUploadNever(u) == FALSE

\* _upload_rows: len(rows) == 0.
NothingToUpload(u) == Len(rows[u]) = 0

\* _upload_rows: if len(rows) == 0: return.
UploadNothing(u) ==
  /\ UNCHANGED <<xvars, cvars, pvars>>
  /\ upc[u] = "upload"
  /\ NothingToUpload(u)
  /\ upc' = [upc EXCEPT ![u] = "delete"]
  /\ UNCHANGED <<store, assigned, lastError, nextRec, stop, count, waitArg, rows, calls, starts,
                 written, deliveredBy, deletedBy, stopInWait, selAfterStop,
                 failed>>

\* Variant: the destinations are taken last to first.
NextDestReversed(u) == NDest - Len(calls[u])

\* _upload_rows: for write_api, bucket in zip(self._write_apis, _BUCKETS.value):
\* the destination the loop is at after the calls made so far.
NextDest(u) == Len(calls[u]) + 1

\* Variant: the error is swallowed inside the cycle, which goes on to delete.
AfterWriteErrorSwallowed(u) == "delete"

\* Variant: the error is caught around the cycle and the loop goes on.
AfterWriteErrorCaught(u) == "loop"

\* Where run goes when write_api.write raises: nothing catches it.
AfterWriteError(u) == "raised"

\* Variant: the event is tested between the upload and the delete.
AfterUploadTestsStop(u) == IF stop[u] THEN "returned" ELSE "delete"

\* run: after self._upload_rows(...) comes self._delete_rows(...).
AfterUpload(u) == "delete"

\* _upload_rows: write_api.write(bucket=bucket, record=rows) returns.
WriteOk(u) ==
  /\ UNCHANGED <<xvars, cvars, pvars>>
  /\ upc[u] = "upload"
  /\ ~NothingToUpload(u)
  /\ LET d == NextDest(u) IN
       /\ d \in Dests
       /\ calls' = [calls EXCEPT ![u] =
                      Append(@, [dest |-> d, record |-> LpSeq(rows[u]), ok |-> TRUE])]
       /\ written' = [written EXCEPT ![d] = @ \o LpSeq(rows[u])]
       /\ IF Len(calls[u]) + 1 = NDest
            THEN /\ upc' = [upc EXCEPT ![u] = AfterUpload(u)]
                 /\ deliveredBy' = [deliveredBy EXCEPT ![u] = @ \cup Lps(rows[u])]
            ELSE UNCHANGED <<upc, deliveredBy>>
  /\ UNCHANGED <<store, assigned, lastError, nextRec, stop, count, waitArg, rows, starts,
                 deletedBy, stopInWait, selAfterStop, failed>>

\* _upload_rows: write_api.write raises (the destination refused the batch).
WriteFail(u) ==
  /\ UNCHANGED <<xvars, cvars, pvars>>
  /\ upc[u] = "upload"
  /\ ~NothingToUpload(u)
  /\ LET d == NextDest(u) IN
       /\ d \in Dests
       /\ calls' = [calls EXCEPT ![u] =
                      Append(@, [dest |-> d, record |-> LpSeq(rows[u]), ok |-> FALSE])]
       /\ failed' = [failed EXCEPT ![u] = [rows |-> rows[u], dest |-> d]]
  /\ upc' = [upc EXCEPT ![u] = AfterWriteError(u)]
  /\ UNCHANGED <<store, assigned, lastError, nextRec, stop, count, waitArg, rows, starts, written,
                 deliveredBy, deletedBy, stopInWait, selAfterStop>>

\* run: self._delete_rows(list(rows.keys())).
Delete(u) ==
  /\ UNCHANGED <<xvars, cvars, pvars>>
  /\ upc[u] = "delete"
  /\ store' = DeleteRows(store, RowIds(rows[u]))
  /\ deletedBy' = [deletedBy EXCEPT ![u] =
                     @ \cup (Lps(store) \ Lps(DeleteRows(store, RowIds(rows[u]))))]
  /\ upc' = [upc EXCEPT ![u] = "loop"]
  /\ rows' = [rows EXCEPT ![u] = <<>>]           \* dead from here on
  /\ calls' = [calls EXCEPT ![u] = <<>>]
  /\ failed' = [failed EXCEPT ![u] = NoFailure]  \* the cycle went through
  /\ UNCHANGED <<assigned, lastError, nextRec, stop, count, waitArg, starts,
                 written, deliveredBy, stopInWait, selAfterStop>>

\* The steps of one run of uploader u while every destination accepts.
RunStepOk(u) ==
  \/ LoopTest(u)
  \/ GetCount(u)
  \/ Wait(u)
  \/ GetRows(u)
  \/ UploadNothing(u)
  \/ WriteOk(u)
  \/ Delete(u)

\* The steps of one run of uploader u.
RunStep(u) ==
  \/ RunStepOk(u)
  \/ WriteFail(u)

\* Variant: the error is caught around the cycle and the loop goes on.
AfterStorageErrorRetried(u) == "loop"

\* Where run goes when _get_count, _get_rows or _delete_rows raises: nothing
\* catches it.
AfterStorageError(u) == "raised"

\* _get_count, the SELECT of _get_rows or the DELETE of _delete_rows raises
\* sqlite3.Error (file unreadable, disk full, lock not obtained in time).
StorageFail(u) ==
  /\ UNCHANGED <<xvars, cvars, pvars>>
  /\ upc[u] \in {"count", "select", "delete"}
  /\ lastError' = [lastError EXCEPT ![u] = upc[u]]
  /\ store' = IF upc[u] = "delete"
                THEN AfterFailedDelete(store, RowIds(rows[u]))
                ELSE store
  /\ upc' = [upc EXCEPT ![u] = AfterStorageError(u)]
  /\ UNCHANGED <<assigned, nextRec, stop, count, waitArg, rows, calls, starts,
                 written, deliveredBy, deletedBy, stopInWait, selAfterStop,
                 failed>>

\* Variant: rows that fail the checks are skipped and the cycle goes on.
OnInvalidRowSkip(batch) == [pc |-> "upload", rows |-> SelectSeq(batch, ValidRow)]

\* _get_rows: the first row that fails the checks raises ValueError; the
\* dict filled so far is dropped with the frame.
OnInvalidRow(batch) == [pc |-> "raised", rows |-> <<>>]

\* run: rows = self._get_rows() when a fetched row fails the checks.
SelectFail(u) ==
  /\ UNCHANGED <<xvars, cvars, pvars>>
  /\ upc[u] = "select"
  /\ \E i \in 1..Len(SelectRows(store, BatchSize)) :
       ~ValidRow(SelectRows(store, BatchSize)[i])
  /\ lastError' = [lastError EXCEPT ![u] = "schema"]
  /\ rows' = [rows EXCEPT ![u] = OnInvalidRow(SelectRows(store, BatchSize)).rows]
  /\ calls' = [calls EXCEPT ![u] = <<>>]
  /\ upc' = [upc EXCEPT ![u] = OnInvalidRow(SelectRows(store, BatchSize)).pc]
  /\ UNCHANGED <<store, assigned, nextRec, stop, count, waitArg, starts,
                 written, deliveredBy, deletedBy, stopInWait, selAfterStop,
                 failed>>

\* The uploader process is killed (SIGKILL, power loss) anywhere in run; a
\* DELETE transaction in progress is either committed (Delete has happened)
\* or not (the store is as before).
Crash(u) ==
  /\ UNCHANGED <<xvars, cvars, pvars>>
  /\ upc[u] \notin {"off", "raised", "returned"}
  /\ upc' = [upc EXCEPT ![u] = "off"]
  /\ count' = [count EXCEPT ![u] = 0]
  /\ waitArg' = [waitArg EXCEPT ![u] = "none"]
  /\ rows' = [rows EXCEPT ![u] = <<>>]
  /\ calls' = [calls EXCEPT ![u] = <<>>]
  /\ UNCHANGED <<store, assigned, lastError, nextRec, stop, starts, written,
                 deliveredBy, deletedBy, stopInWait, selAfterStop, failed>>

\* The steps of one run of uploader u, storage errors included.
RunStepFaulty(u) ==
  \/ RunStepOk(u)
  \/ StorageFail(u)
  \/ SelectFail(u)

(* -------------------------- LineProtocolCache ------------------------- *)

\* config.batch_size of LineProtocolCacheConfig.
CacheBatchSize == 2

\* The values tried for every field of LineProtocolCacheConfig: negative,
\* zero, and positive up to MaxConfigValue.
MaxConfigValue == 1
ConfigValues == (0 - 1)..MaxConfigValue

\* The config the scopes of the other specifications are built with.
DefaultConfig ==
  [timeout_s |-> 1, batch_size |-> CacheBatchSize, commit_interval_s |-> 1,
   sample_interval_s |-> 1]

\* Variant: the sample interval has to be positive like the others.
ConfigValidAllPositive(c) ==
  /\ c.timeout_s > 0
  /\ c.batch_size > 0
  /\ c.commit_interval_s > 0
  /\ c.sample_interval_s > 0

\* LineProtocolCacheConfig.__post_init__: the four asserts.
ConfigValid(c) ==
  /\ c.timeout_s > 0
  /\ c.batch_size > 0
  /\ c.commit_interval_s > 0
  /\ c.sample_interval_s >= 0

\* LineProtocolCacheConfig(...): the dataclass __init__ runs __post_init__.
Construct ==
  /\ cfgState = "new"
  /\ cfgState' = IF ConfigValid(cfg) THEN "ok" ELSE "rejected"
  /\ UNCHANGED <<xvars, store, assigned, lastError, nextRec, uvars, cvars, hconn,
                 hlast, cfg>>

\* __enter__: self._thread.start().
Enter ==
  /\ cfgState = "ok"
  /\ apc = "out"
  /\ tpc = "new"
  /\ apc' = "entering"
  /\ tpc' = "init"
  /\ UNCHANGED <<xvars, store, assigned, lastError, nextRec, uvars, pvars, queue, isOpen, stopThread, trows, ppc,
                 pitems, pdone, putDone, rejected, atExit, insertFailed, ticked>>

\* __enter__: self._IS_QUEUE_OPEN.wait() returns: the event is set, or the
\* thread has set it since the wait began (a waiter that was notified
\* returns, also when the event is cleared again at once).
Entered ==
  /\ apc = "entering"
  /\ (isOpen \/ tpc \notin {"new", "init", "failed"})
  /\ apc' = "in"
  /\ UNCHANGED <<xvars, store, assigned, lastError, nextRec, uvars, pvars, queue, isOpen, stopThread, tpc, trows,
                 ppc, pitems, pdone, putDone, rejected, atExit, insertFailed, ticked>>

\* __exit__: self._stop_thread.set().
Exit ==
  /\ apc = "in"
  /\ stopThread' = TRUE
  /\ apc' = "joining"
  /\ atExit' = putDone
  /\ atExitB' = putDoneB
  /\ UNCHANGED <<exceptQvars, ppcB, pitemsB, pdoneB, putDoneB, unfinished,
                 taskDone, store, assigned, lastError, nextRec, uvars, pvars, queue, isOpen, tpc, trows, ppc, pitems, pdone,
                 putDone, rejected, insertFailed, ticked>>

\* __exit__: self._thread.join() returns.
Exited ==
  /\ apc = "joining"
  /\ tpc = "dead"
  /\ apc' = "exited"
  /\ UNCHANGED <<xvars, store, assigned, lastError, nextRec, uvars, pvars, queue, isOpen, stopThread, tpc, trows,
                 ppc, pitems, pdone, putDone, rejected, atExit, insertFailed, ticked>>

\* _drain_queue: makedirs, connect, ENABLE_WAL, CREATE_TABLE, then
\* self._IS_QUEUE_OPEN.set().
ThreadOpen ==
  /\ tpc = "init"
  /\ isOpen' = TRUE
  /\ tpc' = "sleep"
  /\ UNCHANGED <<xvars, store, assigned, lastError, nextRec, uvars, pvars, queue, stopThread, trows, apc, ppc,
                 pitems, pdone, putDone, rejected, atExit, insertFailed, ticked>>

\* Variant: the event is left as it is when the thread ends.
OpenAfterThreadEndKept == isOpen

\* _drain_queue, finally: self._IS_QUEUE_OPEN.clear().
OpenAfterThreadEnd == FALSE

\* _drain_queue: makedirs or connect raises (before the try block), or
\* ENABLE_WAL / CREATE_TABLE raises (the finally block runs): the thread ends
\* without having set the event.
ThreadOpenFail ==
  /\ tpc = "init"
  /\ isOpen' = OpenAfterThreadEnd
  /\ tpc' = "failed"
  /\ UNCHANGED <<xvars, store, assigned, lastError, nextRec, uvars, pvars, queue,
                 stopThread, trows, apc, ppc, pitems, pdone, putDone, rejected,
                 atExit, insertFailed, ticked>>

\* _drain_queue: while not self._stop_thread.wait(commit_interval_s): the wait
\* returns the flag, False when the interval elapsed with the event not set.
ThreadWait ==
  /\ tpc = "sleep"
  /\ tpc' = IF stopThread THEN "final" ELSE "get"
  /\ ticked' = (ticked \/ ~stopThread)
  /\ UNCHANGED <<xvars, store, assigned, lastError, nextRec, uvars, pvars, queue, isOpen, stopThread, trows, apc,
                 ppc, pitems, pdone, putDone, rejected, atExit, insertFailed>>

\* Variant: no final flush, the thread closes as soon as the event is set.
AfterLoopNoFlush == "closing"

\* _drain_queue: while self._QUEUE.qsize() != 0 (the final flush), and on
\* leaving it the first statement of the finally block is still to come.
AfterLoop == IF Len(queue) # 0 THEN "fget" ELSE "closing"

ThreadFinalTest ==
  /\ tpc = "final"
  /\ tpc' = AfterLoop
  /\ UNCHANGED <<xvars, store, assigned, lastError, nextRec, uvars, pvars, queue, isOpen, stopThread, trows, apc,
                 ppc, pitems, pdone, putDone, rejected, atExit, insertFailed, ticked>>

\* Variant: the queue is emptied whatever the batch size.
MoreRowsUnbounded == Len(queue) # 0

\* Variant: rows are taken only when a full batch is waiting.
MoreRowsFullBatchOnly ==
  /\ Len(queue) + Len(trows) >= CacheBatchSize
  /\ Len(trows) < CacheBatchSize

\* _get_rows: while qsize() != 0 and len(rows) < batch_size.
MoreRows == Len(queue) # 0 /\ Len(trows) < CacheBatchSize

\* Variant: a LifoQueue, get takes the newest item.
QueueGetNewest(q) == [item |-> q[Len(q)], rest |-> SubSeq(q, 1, Len(q) - 1)]

\* _QUEUE = Queue(), self._QUEUE.get(): the oldest item leaves the queue.
QueueGet(q) == [item |-> Head(q), rest |-> Tail(q)]

\* _get_rows: one turn of the loop, row = self._QUEUE.get(), or its end.
ThreadGetRow ==
  /\ tpc \in {"get", "fget"}
  /\ IF MoreRows
       THEN /\ trows' = Append(trows, QueueGet(queue).item)
            /\ queue' = QueueGet(queue).rest
            /\ tpc' = tpc
       ELSE /\ tpc' = (IF tpc = "get" THEN "insert" ELSE "finsert")
            /\ UNCHANGED <<trows, queue>>
  /\ UNCHANGED <<xvars, store, assigned, lastError, nextRec, uvars, pvars, isOpen, stopThread, apc, ppc, pitems, pdone,
                 putDone, rejected, atExit, insertFailed, ticked>>

\* Variant: one task_done for a batch.
TaskDoneCallsPerBatch(batch) == IF Len(batch) = 0 THEN 0 ELSE 1

\* _insert_rows: for _ in range(len(rows)): self._QUEUE.task_done().
TaskDoneCalls(batch) == Len(batch)

\* _insert_rows: nothing for an empty list, else executemany(_INSERT_ROW)
\* in one transaction and task_done for every row.
ThreadInsert ==
  /\ tpc \in {"insert", "finsert"}
  /\ store' = InsertMany(store, trows)
  /\ assigned' = assigned \cup RowIds(InsertMany(store, trows))
  /\ unfinished' = unfinished - TaskDoneCalls(trows)
  /\ taskDone' = taskDone + TaskDoneCalls(trows)
  /\ trows' = <<>>
  /\ tpc' = (IF tpc = "insert" THEN "sleep" ELSE "final")
  /\ UNCHANGED <<exceptQvars, ppcB, pitemsB, pdoneB, putDoneB, atExitB, lastError, nextRec, uvars, pvars, queue, isOpen, stopThread, apc, ppc,
                 pitems, pdone, putDone, rejected, atExit, insertFailed, ticked>>

\* _insert_rows: the transaction raises; the finally block of _drain_queue
\* runs and the thread ends with the rows it had taken from the queue.
ThreadInsertFail ==
  /\ tpc \in {"insert", "finsert"}
  /\ Len(trows) > 0
  /\ insertFailed' = TRUE
  /\ trows' = <<>>
  /\ isOpen' = OpenAfterThreadEnd
  /\ tpc' = "dead"
  /\ UNCHANGED <<xvars, store, assigned, lastError, nextRec, uvars, pvars, queue, stopThread, apc, ppc, pitems, pdone,
                 putDone, rejected, atExit, ticked>>

\* _drain_queue, finally: self._IS_QUEUE_OPEN.clear(), connection.close().
ThreadClose ==
  /\ tpc = "closing"
  /\ isOpen' = OpenAfterThreadEnd
  /\ tpc' = "dead"
  /\ UNCHANGED <<xvars, store, assigned, lastError, nextRec, uvars, pvars, queue, stopThread, trows, apc, ppc,
                 pitems, pdone, putDone, rejected, atExit, insertFailed, ticked>>

\* Variant: put without the test of the event.
QueueIsOpenAlways == TRUE

\* put: cls._IS_QUEUE_OPEN.is_set().
QueueIsOpen == isOpen

\* put: if not cls._IS_QUEUE_OPEN.is_set(): raise ValueError; the items are
\* the next n line protocols.
PutCall ==
  /\ ppc = "idle"
  /\ \E n \in 1..MaxPut :
       /\ nextRec + n - 1 <= MaxRecords
       /\ nextRec' = nextRec + n
       /\ IF QueueIsOpen
            THEN /\ pitems' = NewLps(n)
                 /\ ppc' = "putting"
                 /\ UNCHANGED rejected
            ELSE /\ rejected' = rejected \cup {NewLps(n)[i] : i \in 1..n}
                 /\ UNCHANGED <<pitems, ppc>>
  /\ UNCHANGED <<xvars, store, assigned, lastError, uvars, pvars, queue, isOpen, stopThread,
                 tpc, trows, apc, pdone, putDone, atExit, insertFailed, ticked>>

\* put: cls._QUEUE.put(item.to_line_protocol()) for the next item; the call
\* returns after the last one.
PutItem ==
  /\ ppc = "putting"
  /\ queue' = Append(queue, pitems[pdone + 1])
  /\ unfinished' = unfinished + 1
  /\ IF pdone + 1 = Len(pitems)
       THEN /\ ppc' = "idle"
            /\ putDone' = putDone \o pitems
            /\ pitems' = <<>>
            /\ pdone' = 0
       ELSE /\ pdone' = pdone + 1
            /\ UNCHANGED <<ppc, putDone, pitems>>
  /\ UNCHANGED <<exceptQvars, ppcB, pitemsB, pdoneB, putDoneB, atExitB, taskDone, store, assigned, lastError, nextRec, uvars, pvars, isOpen, stopThread, tpc, trows, apc,
                 rejected, atExit, insertFailed, ticked>>

\* put called by the second thread: the same test of the event.
PutCallB ==
  /\ ppcB = "idle"
  /\ \E n \in 1..MaxPut :
       /\ nextRec + n - 1 <= MaxRecords
       /\ nextRec' = nextRec + n
       /\ IF QueueIsOpen
            THEN /\ pitemsB' = NewLps(n)
                 /\ ppcB' = "putting"
                 /\ UNCHANGED rejected
            ELSE /\ rejected' = rejected \cup {NewLps(n)[i] : i \in 1..n}
                 /\ UNCHANGED <<pitemsB, ppcB>>
  /\ UNCHANGED <<exceptQvars, pdoneB, putDoneB, atExitB, unfinished, taskDone, store,
                 assigned, lastError, uvars, pvars, queue, isOpen, stopThread,
                 tpc, trows, apc, ppc, pitems, pdone, putDone, atExit,
                 insertFailed, ticked>>

\* put of the second thread: cls._QUEUE.put for its next item.
PutItemB ==
  /\ ppcB = "putting"
  /\ queue' = Append(queue, pitemsB[pdoneB + 1])
  /\ unfinished' = unfinished + 1
  /\ IF pdoneB + 1 = Len(pitemsB)
       THEN /\ ppcB' = "idle"
            /\ putDoneB' = putDoneB \o pitemsB
            /\ pitemsB' = <<>>
            /\ pdoneB' = 0
       ELSE /\ pdoneB' = pdoneB + 1
            /\ UNCHANGED <<ppcB, putDoneB, pitemsB>>
  /\ UNCHANGED <<exceptQvars, atExitB, taskDone, store, assigned, lastError, nextRec,
                 uvars, pvars, isOpen, stopThread, tpc, trows, apc, ppc,
                 pitems, pdone, putDone, rejected, atExit, insertFailed,
                 ticked>>

(* --------------------- a second LineProtocolCache --------------------- *)

\* A second LineProtocolCache object of the process, built with the same
\* config: _QUEUE and _IS_QUEUE_OPEN are attributes of the class, the thread
\* and _stop_thread belong to the object.

\* __enter__: self._thread.start().
EnterB ==
  /\ cfgState = "ok"
  /\ apcB = "out"
  /\ tpcB = "new"
  /\ apcB' = "entering"
  /\ tpcB' = "init"
  /\ UNCHANGED <<store, assigned, lastError, nextRec, uvars, pvars, cvars,
                 exceptSvars, qvars, stopThreadB, trowsB>>

\* __enter__: self._IS_QUEUE_OPEN.wait() returns.
EnteredB ==
  /\ apcB = "entering"
  /\ (isOpen \/ tpcB \notin {"new", "init"})
  /\ apcB' = "in"
  /\ UNCHANGED <<store, assigned, lastError, nextRec, uvars, pvars, cvars,
                 exceptSvars, qvars, tpcB, stopThreadB, trowsB>>

\* __exit__: self._stop_thread.set().
ExitB ==
  /\ apcB = "in"
  /\ stopThreadB' = TRUE
  /\ apcB' = "joining"
  /\ UNCHANGED <<store, assigned, lastError, nextRec, uvars, pvars, cvars,
                 exceptSvars, qvars, tpcB, trowsB>>

\* __exit__: self._thread.join() returns.
ExitedB ==
  /\ apcB = "joining"
  /\ tpcB = "dead"
  /\ apcB' = "exited"
  /\ UNCHANGED <<store, assigned, lastError, nextRec, uvars, pvars, cvars,
                 exceptSvars, qvars, tpcB, stopThreadB, trowsB>>

\* _drain_queue: connect, ENABLE_WAL, CREATE_TABLE, _IS_QUEUE_OPEN.set().
ThreadOpenB ==
  /\ tpcB = "init"
  /\ isOpen' = TRUE
  /\ tpcB' = "sleep"
  /\ UNCHANGED <<store, assigned, lastError, nextRec, uvars, pvars, queue,
                 scopeAvars, exceptSvars, unfinished, taskDone, apcB,
                 stopThreadB, trowsB>>

\* _drain_queue: while not self._stop_thread.wait(commit_interval_s).
ThreadWaitB ==
  /\ tpcB = "sleep"
  /\ tpcB' = IF stopThreadB THEN "final" ELSE "get"
  /\ UNCHANGED <<store, assigned, lastError, nextRec, uvars, pvars, cvars,
                 exceptSvars, qvars, apcB, stopThreadB, trowsB>>

\* _drain_queue: while self._QUEUE.qsize() != 0 (the final flush).
ThreadFinalTestB ==
  /\ tpcB = "final"
  /\ tpcB' = AfterLoop
  /\ UNCHANGED <<store, assigned, lastError, nextRec, uvars, pvars, cvars,
                 exceptSvars, qvars, apcB, stopThreadB, trowsB>>

\* _get_rows: one turn of the loop with the item at hand, or its end.
ThreadGetRowB ==
  /\ tpcB \in {"get", "fget"}
  /\ IF Len(queue) # 0 /\ Len(trowsB) < CacheBatchSize
       THEN /\ trowsB' = Append(trowsB, QueueGet(queue).item)
            /\ queue' = QueueGet(queue).rest
            /\ tpcB' = tpcB
       ELSE /\ tpcB' = (IF tpcB = "get" THEN "insert" ELSE "finsert")
            /\ UNCHANGED <<trowsB, queue>>
  /\ UNCHANGED <<store, assigned, lastError, nextRec, uvars, pvars, isOpen,
                 scopeAvars, exceptSvars, unfinished, taskDone, apcB,
                 stopThreadB>>

\* _insert_rows: executemany(_INSERT_ROW) in one transaction into the cache
\* file of the config, and task_done for every row.
ThreadInsertB ==
  /\ tpcB \in {"insert", "finsert"}
  /\ store' = InsertMany(store, trowsB)
  /\ assigned' = assigned \cup RowIds(InsertMany(store, trowsB))
  /\ unfinished' = unfinished - TaskDoneCalls(trowsB)
  /\ taskDone' = taskDone + TaskDoneCalls(trowsB)
  /\ trowsB' = <<>>
  /\ tpcB' = (IF tpcB = "insert" THEN "sleep" ELSE "final")
  /\ UNCHANGED <<lastError, nextRec, uvars, pvars, queue, isOpen, scopeAvars,
                 exceptSvars, apcB, stopThreadB>>

\* _drain_queue, finally: self._IS_QUEUE_OPEN.clear(), connection.close().
ThreadCloseB ==
  /\ tpcB = "closing"
  /\ isOpen' = OpenAfterThreadEnd
  /\ tpcB' = "dead"
  /\ UNCHANGED <<store, assigned, lastError, nextRec, uvars, pvars, queue,
                 scopeAvars, exceptSvars, unfinished, taskDone, apcB,
                 stopThreadB, trowsB>>

\* The steps of the thread of the second scope.
ThreadStepB ==
  \/ ThreadOpenB
  \/ ThreadWaitB
  \/ ThreadFinalTestB
  \/ ThreadGetRowB
  \/ ThreadInsertB
  \/ ThreadCloseB

(* ----------------------- bucket migration helper ---------------------- *)

\* Timestamp._NANOSECONDS_MAX, scaled down; _NANOSECONDS_MIN is its negative.
TsMax == 15
TsMin == 0 - TsMax
\* Duration._DURATION_NS_MAX = 0xffff_ffff_ffff_fffe, twice _NANOSECONDS_MAX.
DurationMax == 2 * TsMax
\* Significant bits of a Python float (53), scaled down with the timestamps.
MantissaBits == 3
\* Largest step tried.
MaxStep == 3

Timestamps == TsMin..TsMax
Steps == (0 - 1)..MaxStep

\* Timestamp.__post_init__ / Duration.__post_init__: ValueError outside.
ValidTimestamp(v) == TsMin <= v /\ v <= TsMax
ValidDuration(d) == (0 - DurationMax) <= d /\ d <= DurationMax

\* num / den rounded to the nearest integer, a tie to the even one.
RoundHalfEven(num, den) ==
  LET q == num \div den
      r == num % den
  IN  IF 2 * r < den THEN q
      ELSE IF 2 * r > den THEN q + 1
      ELSE IF q % 2 = 0 THEN q ELSE q + 1

RECURSIVE Float(_, _, _)
\* The float nearest to num / den * 2^e (num, den > 0): a mantissa m of
\* MantissaBits bits and a binary exponent, value m * 2^e.
Float(num, den, e) ==
  IF num >= (2 ^ MantissaBits) * den THEN Float(num, 2 * den, e + 1)
  ELSE IF num < (2 ^ (MantissaBits - 1)) * den THEN Float(2 * num, den, e - 1)
  ELSE [m |-> RoundHalfEven(num, den), e |-> e]

\* Duration.__truediv__: self.duration_ns / other.duration_ns, the division
\* of two ints into a float.
TrueDiv(a, b) == Float(a, b, 0)

\* math.ceil of the float m * 2^e.
Ceil(f) ==
  IF f.e >= 0 THEN f.m * (2 ^ f.e)
  ELSE (f.m + (2 ^ (0 - f.e)) - 1) \div (2 ^ (0 - f.e))

\* TimestampRangeIterator.__init__: ValueError for a step <= Duration.ZERO,
\* else _i = 0 and _n = math.ceil(ts_range.duraton() / step).
NewIterator(r, st) ==
  IF st <= 0 THEN [state |-> "rejected", i |-> 0, n |-> 0]
  ELSE [state |-> "ok", i |-> 0, n |-> Ceil(TrueDiv(r.stop - r.start, st))]

\* __next__: stop = min(start + self.step, self.ts_range.stop), and
\* ts_range.stop when start + step raises ValueError.
WindowStop(r, st, ws) ==
  IF ValidTimestamp(ws + st)
    THEN (IF ws + st < r.stop THEN ws + st ELSE r.stop)
    ELSE r.stop

\* __next__ with _i < _n: the window, or <<>> when a ValueError leaves the
\* method (step * _i no Duration, start no Timestamp, stop no Timestamp, or
\* TimestampRange refusing start >= stop).
Window(r, st, i) ==
  LET ws == r.start + st * i
      we == WindowStop(r, st, ws)
  IN  IF ValidDuration(st * i) /\ ValidTimestamp(ws) /\ ValidTimestamp(we)
         /\ ws < we
        THEN <<[start |-> ws, stop |-> we]>>
        ELSE <<>>

\* __next__: StopIteration when _i == _n, else the window and _i += 1.
IteratorStep(r, st, t) ==
  IF t.i = t.n THEN [t EXCEPT !.state = "exhausted"]
  ELSE IF Window(r, st, t.i) = <<>> THEN [t EXCEPT !.state = "raised"]
  ELSE [t EXCEPT !.i = t.i + 1]

\* TimestampRangeIterator(ts_range, step).
IteratorInit ==
  /\ it.state = "new"
  /\ it' = NewIterator(tsRange, step)
  /\ UNCHANGED <<store, assigned, lastError, nextRec, uvars, pvars, cvars,
                 exceptMvars, tsRange, step, windows, mpc, current, stopEvent,
                 seenStop, copied>>

\* next(iterator), as list(iterator) calls it.
IteratorNext ==
  /\ it.state = "ok"
  /\ it' = IteratorStep(tsRange, step, it)
  /\ windows' = IF it.i < it.n THEN windows \o Window(tsRange, step, it.i)
                ELSE windows
  /\ UNCHANGED <<store, assigned, lastError, nextRec, uvars, pvars, cvars,
                 exceptMvars, tsRange, step, mpc, current, stopEvent, seenStop,
                 copied>>

\* MigrationActuator.run up to the loop: the iterator is built from the
\* range and the increment; a ValueError ends run.
RunStart ==
  /\ mpc = "off"
  /\ it.state = "new"
  /\ it' = NewIterator(tsRange, step)
  /\ mpc' = IF step <= 0 THEN "raised" ELSE "next"
  /\ UNCHANGED <<store, assigned, lastError, nextRec, uvars, pvars, cvars,
                 exceptMvars, tsRange, step, windows, current, stopEvent, seenStop,
                 copied>>

\* run: for i, current_range in enumerate(iterator): the next window, the
\* end of the loop, or the ValueError of __next__.
RunNext ==
  /\ mpc = "next"
  /\ it' = IteratorStep(tsRange, step, it)
  /\ windows' = IF it.i < it.n THEN windows \o Window(tsRange, step, it.i)
                ELSE windows
  /\ current' = IF it.i < it.n THEN Window(tsRange, step, it.i) ELSE <<>>
  /\ mpc' = IF it.i = it.n THEN "done"
            ELSE IF Window(tsRange, step, it.i) = <<>> THEN "raised"
            ELSE "check"
  /\ UNCHANGED <<store, assigned, lastError, nextRec, uvars, pvars, cvars,
                 exceptMvars, tsRange, step, stopEvent, seenStop, copied>>

\* Variant: the loop does not look at the event.
AfterCheckIgnoresStop == "copy"

\* run: if stop_event.is_set(): break.
AfterCheck == IF stopEvent THEN "stopped" ELSE "copy"

RunCheck ==
  /\ mpc = "check"
  /\ seenStop' = stopEvent
  /\ mpc' = AfterCheck
  /\ UNCHANGED <<store, assigned, lastError, nextRec, uvars, pvars, cvars,
                 exceptMvars, tsRange, step, it, windows, current, stopEvent, copied>>

\* run: record_count = client.copy_to_bucket(target_bucket_info,
\* current_range).
RunCopy ==
  /\ mpc = "copy"
  /\ copied' = copied \o current
  /\ mpc' = "next"
  /\ UNCHANGED <<store, assigned, lastError, nextRec, uvars, pvars, cvars,
                 exceptMvars, tsRange, step, it, windows, current, stopEvent,
                 seenStop>>

\* run: copy_to_bucket raises (the query failed on its last attempt, or its
\* answer is refused by the validator); nothing in run catches it.
RunCopyFail ==
  /\ mpc = "copy"
  /\ mpc' = "raised"
  /\ UNCHANGED <<store, assigned, lastError, nextRec, uvars, pvars, cvars,
                 exceptMvars, tsRange, step, it, windows, current, stopEvent,
                 seenStop, copied>>

\* main: the SIGTERM handler, stop_running.set().
SetStop ==
  /\ ~stopEvent
  /\ stopEvent' = TRUE
  /\ UNCHANGED <<store, assigned, lastError, nextRec, uvars, pvars, cvars,
                 exceptMvars, tsRange, step, it, windows, mpc, current, seenStop,
                 copied>>

\* stop_after_attempt(5) of the retry decorator of execute_query.
MaxAttempts == 5
\* Kinds of exception an attempt can raise.
NExceptions == 3
Exceptions == 1..NExceptions

\* Variant: one more attempt is allowed.
StopAfterAttemptOneMore(n) == n > MaxAttempts

\* tenacity stop_after_attempt: stop when attempt_number >= max_attempt_number.
StopAfterAttempt(n) == n >= MaxAttempts

\* client.execute_query(ts_range, query_lines) is called.
ExecuteQuery ==
  /\ qpc = "idle"
  /\ qpc' = "trying"
  /\ UNCHANGED <<store, assigned, lastError, nextRec, uvars, pvars, cvars,
                 exceptRvars, attempts, qout>>

\* One attempt of the decorated function: the query is answered, the answer
\* passes the validator and is returned to the caller.
QueryAttemptOk ==
  /\ qpc = "trying"
  /\ attempts' = Append(attempts, 0)
  /\ qout' = <<Len(attempts) + 1>>
  /\ qpc' = "returned"
  /\ UNCHANGED <<store, assigned, lastError, nextRec, uvars, pvars, cvars,
                 exceptRvars>>

\* One attempt raises: with reraise=True the exception of this attempt is
\* raised to the caller when the stop condition holds, else the call waits
\* (wait_fixed(5)) and tries again.
QueryAttemptFail ==
  /\ qpc = "trying"
  /\ \E x \in Exceptions :
       /\ attempts' = Append(attempts, x)
       /\ IF StopAfterAttempt(Len(attempts) + 1)
            THEN qpc' = "raised" /\ qout' = <<Len(attempts) + 1>>
            ELSE qpc' = "trying" /\ qout' = qout
  /\ UNCHANGED <<store, assigned, lastError, nextRec, uvars, pvars, cvars,
                 exceptRvars>>

(* -------------------------- specifications ---------------------------- *)

InitProgram ==
  /\ store = <<>>
  /\ assigned = {}
  /\ lastError = [u \in Uploaders |-> "none"]
  /\ nextRec = 1
  /\ upc = [u \in Uploaders |-> "off"]
  /\ stop = [u \in Uploaders |-> FALSE]
  /\ count = [u \in Uploaders |-> 0]
  /\ waitArg = [u \in Uploaders |-> "none"]
  /\ rows = [u \in Uploaders |-> <<>>]
  /\ calls = [u \in Uploaders |-> <<>>]
  /\ starts = [u \in Uploaders |-> 0]
  /\ written = [d \in Dests |-> <<>>]
  /\ deliveredBy = [u \in Uploaders |-> {}]
  /\ deletedBy = [u \in Uploaders |-> {}]
  /\ stopInWait = [u \in Uploaders |-> FALSE]
  /\ selAfterStop = [u \in Uploaders |-> 0]
  /\ failed = [u \in Uploaders |-> NoFailure]
  /\ queue = <<>>
  /\ isOpen = FALSE
  /\ stopThread = FALSE
  /\ tpc = "new"
  /\ trows = <<>>
  /\ apc = "out"
  /\ ppc = "idle"
  /\ pitems = <<>>
  /\ pdone = 0
  /\ putDone = <<>>
  /\ rejected = {}
  /\ atExit = <<>>
  /\ insertFailed = FALSE
  /\ ticked = FALSE
  /\ hconn = FALSE
  /\ hlast = "none"
  /\ maxRowid = <<>>
  /\ maxRowidCalls = 0
  /\ it = [state |-> "new", i |-> 0, n |-> 0]
  /\ windows = <<>>
  /\ mpc = "off"
  /\ current = <<>>
  /\ stopEvent = FALSE
  /\ seenStop = FALSE
  /\ copied = <<>>
  /\ qpc = "idle"
  /\ attempts = <<>>
  /\ qout = <<>>
  /\ ppcB = "idle"
  /\ pitemsB = <<>>
  /\ pdoneB = 0
  /\ putDoneB = <<>>
  /\ atExitB = <<>>
  /\ unfinished = 0
  /\ taskDone = 0
  /\ apcB = "out"
  /\ tpcB = "new"
  /\ stopThreadB = FALSE
  /\ trowsB = <<>>

\* The scopes are built with a valid config.
Init ==
  /\ InitProgram
  /\ tsRange = [start |-> 0, stop |-> 1]
  /\ step = 1
  /\ cfg = DefaultConfig
  /\ cfgState = "ok"

\* LineProtocolCacheConfig is about to be built with any field values.
InitConfig ==
  /\ InitProgram
  /\ tsRange = [start |-> 0, stop |-> 1]
  /\ step = 1
  /\ cfg \in [timeout_s : ConfigValues, batch_size : ConfigValues,
              commit_interval_s : ConfigValues, sample_interval_s : ConfigValues]
  /\ cfgState = "new"

\* A migration is about to run over any TimestampRange (start < stop, as
\* TimestampRange.__post_init__ demands) with any step.
InitMigration ==
  /\ InitProgram
  /\ cfg = DefaultConfig
  /\ cfgState = "ok"
  /\ tsRange \in {r \in [start : Timestamps, stop : Timestamps] : r.start < r.stop}
  /\ step \in Steps

\* Producers and one uploader process on the cache file.
Next ==
  \/ Put
  \/ Main(1)
  \/ Stop(1)
  \/ RunStep(1)

Spec == Init /\ [][Next]_vars

\* Producers and every uploader process on one cache file, each started once
\* and never signalled.
NextShared ==
  \/ Put
  \/ \E u \in Uploaders : starts[u] = 0 /\ Main(u)
  \/ \E u \in Uploaders : RunStep(u)

SpecShared == Init /\ [][NextShared]_vars

\* One uploader process whose steps are scheduled fairly; starting the
\* process (Main) and signalling it (Stop) are up to the environment.
SpecRetry == Init /\ [][Next]_vars /\ WF_vars(RunStep(1))

\* Producers and one uploader process, no destination ever refusing a write.
NextDrain ==
  \/ Put
  \/ Main(1)
  \/ Stop(1)
  \/ RunStepOk(1)

SpecDrain == Init /\ [][NextDrain]_vars /\ WF_vars(RunStepOk(1))

\* Producers whose puts can fail part-way and one uploader process, no
\* destination ever refusing a write.
NextPutFail ==
  \/ Put
  \/ PutFail
  \/ Main(1)
  \/ RunStepOk(1)

SpecPutFail == Init /\ [][NextPutFail]_vars

\* Producers and one uploader process that can be killed anywhere and whose
\* storage statements can raise.
NextCrash ==
  \/ Put
  \/ Main(1)
  \/ Crash(1)
  \/ RunStepOk(1)
  \/ StorageFail(1)

SpecCrash == Init /\ [][NextCrash]_vars

\* Producers, another program writing an invalid row, and one uploader
\* process whose storage statements can raise.
NextFaulty ==
  \/ Put
  \/ Corrupt
  \/ Main(1)
  \/ RunStepFaulty(1)

SpecFaulty == Init /\ [][NextFaulty]_vars

\* Producers, one uploader process and another program that deletes rows.
NextOverlap ==
  \/ Put
  \/ OtherDelete
  \/ Main(1)
  \/ RunStepOk(1)

SpecOverlap == Init /\ [][NextOverlap]_vars

\* Producers, another program that deletes rows, one uploader process and a
\* Consumer asked for max_rowid at any time.
NextTelemetry ==
  \/ Put
  \/ OtherDelete
  \/ Main(1)
  \/ RunStepOk(1)
  \/ MaxRowid

SpecTelemetry == Init /\ [][NextTelemetry]_vars

\* A TimestampRangeIterator that is built and iterated to its end.
NextIterator ==
  \/ IteratorInit
  \/ IteratorNext

SpecIterator == InitMigration /\ [][NextIterator]_vars

\* MigrationActuator.run with SIGTERM arriving at any time and copies that
\* can fail.
NextMigration ==
  \/ RunStart
  \/ RunNext
  \/ RunCheck
  \/ RunCopy
  \/ RunCopyFail
  \/ SetStop

SpecMigration == InitMigration /\ [][NextMigration]_vars

\* One call of BucketClient.execute_query whose attempts succeed or raise.
NextQuery ==
  \/ ExecuteQuery
  \/ QueryAttemptOk
  \/ QueryAttemptFail

SpecQuery == Init /\ [][NextQuery]_vars

\* One Producer object used by its owner in any order, and one uploader
\* process on the same cache file.
NextProducer ==
  \/ ProducerEnter
  \/ ProducerPut
  \/ ProducerExit
  \/ Main(1)
  \/ RunStepOk(1)

SpecProducer == Init /\ [][NextProducer]_vars

\* A LineProtocolCacheConfig built from any values, and the start of a scope
\* with it.
NextConfig ==
  \/ Construct
  \/ Enter
  \/ ThreadOpen
  \/ ThreadOpenFail
  \/ Entered

SpecConfig == InitConfig /\ [][NextConfig]_vars

\* The steps of the LineProtocolCache thread while its statements succeed.
ThreadStep ==
  \/ ThreadOpen
  \/ ThreadWait
  \/ ThreadFinalTest
  \/ ThreadGetRow
  \/ ThreadInsert
  \/ ThreadClose

\* One LineProtocolCache scope whose thread never fails and is scheduled
\* fairly, and a thread that calls put.
NextCacheOk ==
  \/ Enter
  \/ Entered
  \/ Exit
  \/ Exited
  \/ ThreadStep
  \/ PutCall
  \/ PutItem

SpecCacheLive == Init /\ [][NextCacheOk]_vars /\ WF_vars(ThreadStep)

\* One LineProtocolCache scope whose thread never fails, and two threads that
\* call put.
NextPutters ==
  \/ Enter
  \/ Entered
  \/ Exit
  \/ Exited
  \/ ThreadStep
  \/ PutCall
  \/ PutItem
  \/ PutCallB
  \/ PutItemB

SpecPutters == Init /\ [][NextPutters]_vars

\* Two LineProtocolCache scopes of one process that can overlap, their
\* threads (which never fail) and a thread that calls put.
NextScopes ==
  \/ Enter
  \/ Entered
  \/ Exit
  \/ Exited
  \/ ThreadStep
  \/ EnterB
  \/ EnteredB
  \/ ExitB
  \/ ExitedB
  \/ ThreadStepB
  \/ PutCall
  \/ PutItem

SpecScopes == Init /\ [][NextScopes]_vars

\* One LineProtocolCache scope, its thread and a thread that calls put.
NextCache ==
  \/ Enter
  \/ Entered
  \/ Exit
  \/ Exited
  \/ ThreadOpen
  \/ ThreadOpenFail
  \/ ThreadWait
  \/ ThreadFinalTest
  \/ ThreadGetRow
  \/ ThreadInsert
  \/ ThreadInsertFail
  \/ ThreadClose
  \/ PutCall
  \/ PutItem

SpecCache == Init /\ [][NextCache]_vars

(* ------------------------------ claims -------------------------------- *)

Range(q) == {q[i] : i \in 1..Len(q)}
Restrict(q, S) == SelectSeq(q, LAMBDA x : x \in S)
IsPrefix(a, b) == Len(a) <= Len(b) /\ SubSeq(b, 1, Len(a)) = a
Occ(q, r) == Cardinality({i \in 1..Len(q) : q[i] = r})
InStore(r) == \E i \in 1..Len(store) : store[i] = r
HasFailedCall(u) == \E i \in 1..Len(calls[u]) : ~calls[u][i].ok
Halted(u) == upc[u] \in {"off", "raised", "returned"}
\* The line protocols persisted so far, in insertion order.
Inserted == [i \in 1..(nextRec - 1) |-> i]

\* C1: in a cycle in which a destination refused the batch, the uploader does
\* not get to its delete and every row of the selected batch is still in the
\* store, also when earlier destinations had accepted the batch.
C1_NoDeleteAfterFailedWrite ==
  \A u \in Uploaders :
    HasFailedCall(u) =>
      /\ upc[u] # "delete"
      /\ \A i \in 1..Len(rows[u]) : InStore(rows[u][i])
      /\ Lps(rows[u]) \cap deletedBy[u] = {}

C1_Witness ==
  /\ HasFailedCall(1)
  /\ Len(calls[1]) = NDest
  /\ calls[1][1].ok
  /\ Len(rows[1]) = BatchSize

\* C2 (as claimed): whatever the interleaving of producers and uploaders, an
\* uploader deletes only rows whose line protocol it wrote to every
\* destination.
C2_DeletedOnlyIfDelivered ==
  \A u \in Uploaders : deletedBy[u] \subseteq deliveredBy[u]

\* C3: with one uploader and no refused write, every persisted line protocol
\* is in the store or was deleted after being written exactly once to every
\* destination, no destination gets a line protocol twice, and as long as the
\* uploader keeps running the store is empty again and again (producers stop
\* after finitely many puts).
C3_Delivery ==
  /\ \A d \in Dests : \A r \in Records : Occ(written[d], r) <= 1
  /\ deletedBy[1] \subseteq deliveredBy[1]
  /\ {r \in Records : r < nextRec} \ Lps(store) = deletedBy[1]
  /\ \A r \in deletedBy[1] : \A d \in Dests : Occ(written[d], r) = 1

C3_ExactlyOnceAndDrained ==
  /\ []C3_Delivery
  /\ ([]<>(Count(store) = 0) \/ <>[]Halted(1))

C3_Witness ==
  /\ nextRec = MaxRecords + 1
  /\ Count(store) = 0
  /\ deletedBy[1] = Records
  /\ \A d \in Dests : Len(written[d]) = MaxRecords
  /\ upc[1] = "wait"

C6_NoDrainAfterStopInWait ==
  \A u \in Uploaders :
    stopInWait[u] => (selAfterStop[u] = 0 /\ upc[u] \notin {"upload", "delete"})

\* C6 (amended): when stop_running is set during the pacing wait, the run
\* still makes the select of that cycle, and it is the only one it makes with
\* the event set: a run that returns has completed exactly that one cycle.
C6_OneLastCycleAfterStop ==
  \A u \in Uploaders :
    /\ selAfterStop[u] <= 1
    /\ (stopInWait[u] /\ upc[u] = "returned") => selAfterStop[u] = 1
    /\ (stopInWait[u] /\ upc[u] \in {"upload", "delete"}) => selAfterStop[u] = 1

C6_Witness ==
  /\ stopInWait[1]
  /\ upc[1] = "returned"
  /\ selAfterStop[1] = 1
  /\ deletedBy[1] # {}

\* C7: the interval run waits for is the catching-up interval exactly when
\* the number of rows counted at the start of the cycle is greater than the
\* batch size, and the upload interval otherwise.
C7_CatchingUpIffBacklogAboveBatch ==
  [][\A u \in Uploaders :
       (upc[u] = "count" /\ upc'[u] = "wait") =>
         /\ count'[u] = Len(store)
         /\ waitArg'[u] = (IF Len(store) > BatchSize THEN "catching_up" ELSE "upload")]_vars

C7_Witness ==
  /\ upc[1] = "wait"
  /\ waitArg[1] = "catching_up"
  /\ count[1] = BatchSize + 1

\* C8: a cycle selects at most batch_size rows, by ascending rowid, and hands
\* their line protocols in that order to the destinations; with one uploader
\* and no refused write, what a destination got so far is a prefix of the
\* insertion order, and between two cycles it is followed exactly by the
\* content of the store: successive batches are consecutive and disjoint.
C8_BatchesInInsertionOrder ==
  /\ \A u \in Uploaders :
       /\ Len(rows[u]) <= BatchSize
       /\ \A i \in 1..(Len(rows[u]) - 1) : rows[u][i].rowid < rows[u][i + 1].rowid
       /\ \A i \in 1..Len(calls[u]) :
            /\ calls[u][i].record = LpSeq(rows[u])
            /\ Len(calls[u][i].record) <= BatchSize
  /\ \A d \in Dests : IsPrefix(written[d], Inserted)
  /\ upc[1] \notin {"upload", "delete"} =>
       \A d \in Dests : written[d] \o LpSeq(store) = Inserted

C8_Witness ==
  /\ upc[1] = "loop"
  /\ Len(written[NDest]) > BatchSize
  /\ Len(written[NDest]) < nextRec - 1

\* C9: the write calls of a cycle go to the destinations in declared order
\* 1, 2, ..., each with the line protocols of the selected rows, each made
\* after the one before was accepted, and none after a refused one.
C9_DestinationsInDeclaredOrder ==
  \A u \in Uploaders :
    /\ Len(calls[u]) <= NDest
    /\ \A i \in 1..Len(calls[u]) :
         /\ calls[u][i].dest = i
         /\ calls[u][i].record = LpSeq(rows[u])
         /\ i < Len(calls[u]) => calls[u][i].ok
    /\ HasFailedCall(u) => ~ENABLED (WriteOk(u) \/ WriteFail(u))

C9_Witness ==
  /\ Len(calls[1]) = NDest
  /\ \A i \in 1..NDest : calls[1][i].ok
  /\ Len(rows[1]) = BatchSize

\* C10: when __exit__ returns (and no INSERT of the thread raised), every line
\* protocol whose put call had returned when __exit__ was called is in the
\* store exactly once, and these rows are in the order of the puts.
C10_ExitFlushesQueue ==
  (apc = "exited" /\ ~insertFailed) =>
    Restrict(LpSeq(store), Range(atExit)) = atExit

C10_Witness ==
  /\ apc = "exited"
  /\ ~insertFailed
  /\ ~ticked
  /\ Len(atExit) > CacheBatchSize
  /\ LpSeq(store) = atExit

\* C11 (as claimed): once the thread of the scope has ended (no INSERT having
\* raised) and no put call is running, every line protocol of a put call that
\* returned without an exception is in the store.
C11_ReturnedPutIsPersisted ==
  (tpc = "dead" /\ ppc = "idle" /\ ~insertFailed) =>
    Range(putDone) \subseteq Lps(store)

\* C12: the event is clear before the thread of a scope has set it, after
\* the thread ended and after __exit__ returned; a put call made while it is
\* clear raises, enqueues nothing and its items never get into queue or
\* store.
C12_ClosedWhenNoThread ==
  /\ tpc \in {"new", "init", "dead"} => ~isOpen
  /\ apc \in {"out", "exited"} => ~isOpen
  /\ rejected \cap (Range(queue) \cup Range(trows) \cup Range(pitems)
                      \cup Range(putDone) \cup Lps(store)) = {}

C12_PutRaisesWhenQueueClosed ==
  /\ []C12_ClosedWhenNoThread
  /\ [][(nextRec' # nextRec /\ ~isOpen) =>
          /\ rejected' = rejected \cup {r \in Records : nextRec <= r /\ r < nextRec'}
          /\ queue' = queue
          /\ ppc' = "idle"
          /\ pitems' = pitems]_vars

C12_Witness ==
  /\ apc = "exited"
  /\ 1 \in rejected
  /\ Cardinality(rejected) > MaxPut
  /\ putDone # <<>>

\* C13 (as claimed): whatever happens to an INSERT of the thread, every line
\* protocol of a returned put call is in the store or still in memory (in
\* the queue or in the batch the thread holds).
C13_FailedInsertKeepsRecords ==
  Range(putDone) \subseteq (Lps(store) \cup Range(queue) \cup Range(trows))

\* C14: a put whose executemany raises part-way persists none of its line
\* protocols, neither in the step that fails (the table and its row count
\* are as before) nor later, whatever is committed afterwards.
C14_FailedPutPersistsNothing ==
  /\ [](rejected \cap Lps(store) = {})
  /\ [][rejected' # rejected =>
          (store' = store /\ Count(store') = Count(store))]_vars

C14_Witness ==
  /\ Cardinality(rejected) >= MaxPut
  /\ \E i \in 1..Len(store) : \A r \in rejected : store[i].lp > r

\* C15 (as claimed): a row that is committed gets a rowid greater than every
\* rowid the table has given out before, so no rowid is given twice.
C15_RowIdsNeverReused ==
  [][\A i \in 1..Len(store') :
       store'[i] \notin Range(store) =>
         \A a \in assigned : store'[i].rowid > a]_vars

\* C16: the delete of a cycle removes exactly the rows of the selected
\* batch, all of which were in the store and had been written to every
\* destination in this cycle (none when the batch is empty); every other row
\* stays.
C16_DeleteRemovesExactlyBatch ==
  [][\A u \in Uploaders :
       (upc[u] = "delete" /\ upc'[u] = "loop") =>
         /\ Range(rows[u]) \subseteq Range(store)
         /\ Range(store') = Range(store) \ Range(rows[u])
         /\ RowIds(store) \ RowIds(store') = RowIds(rows[u])
         /\ Len(rows[u]) > 0 =>
              /\ Len(calls[u]) = NDest
              /\ \A i \in 1..NDest :
                   calls[u][i].ok /\ calls[u][i].record = LpSeq(rows[u])
         /\ Len(rows[u]) = 0 => calls[u] = <<>>]_vars

C16_Witness ==
  /\ upc[1] = "loop"
  /\ Cardinality(deletedBy[1]) = BatchSize
  /\ Len(store) > 0
  /\ Lps(store) \cap deliveredBy[1] = {}

\* C17: with one uploader that can be killed anywhere and whose statements
\* can raise, every line protocol a put committed is in the store or every
\* destination got it; and no step removes a part of
\* the batch the uploader holds: all of its rows go, or none.
C17_NothingLost ==
  \A r \in Records :
    r < nextRec =>
      \/ r \in Lps(store)
      \/ \A d \in Dests : Occ(written[d], r) >= 1

C17_CrashLosesNothing ==
  /\ []C17_NothingLost
  /\ [][(Lps(rows[1]) \cap Lps(store')) \in
          {Lps(rows[1]) \cap Lps(store), {}}]_vars

C17_Witness ==
  /\ upc[1] = "off"
  /\ starts[1] = 1
  /\ Len(store) = BatchSize
  /\ \A d \in Dests : written[d] = LpSeq(store)

\* C18: when the count, the select or the delete raises, or a fetched row
\* fails the checks, the run ends with the error: it is in no cycle any more
\* and takes no further step.
C18_StorageErrorEndsRun ==
  \A u \in Uploaders :
    lastError[u] # "none" =>
      /\ upc[u] = "raised"
      /\ ~ENABLED RunStepFaulty(u)

C18_Witness ==
  /\ lastError[1] = "delete"
  /\ upc[1] = "raised"
  /\ Len(rows[1]) = BatchSize
  /\ \A i \in 1..Len(rows[1]) : InStore(rows[1][i])

\* C19: when a fetched row fails the checks, the select returns nothing: the
\* run ends without a write call and without a delete, also for the valid
\* rows fetched before the invalid one.
C19_InvalidRowFailsWholeSelect ==
  /\ [](\A u \in Uploaders :
          lastError[u] = "schema" =>
            /\ upc[u] = "raised"
            /\ rows[u] = <<>>
            /\ calls[u] = <<>>)
  /\ [][\A u \in Uploaders :
          (lastError'[u] = "schema" /\ lastError[u] # "schema") =>
            (store' = store /\ written' = written /\ deletedBy' = deletedBy)]_vars

C19_Witness ==
  /\ lastError[1] = "schema"
  /\ Len(store) = BatchSize
  /\ ValidRow(store[1])
  /\ ~ValidRow(store[BatchSize])
  /\ \A d \in Dests : store[1].lp \notin Range(written[d])

\* C20: the select of a cycle returns the min(batch_size, count) rows with
\* the lowest rowids, by ascending rowid, and leaves the table as it was.
C20_SelectReturnsOldestRows ==
  [][\A u \in Uploaders :
       (upc[u] = "select" /\ upc'[u] = "upload") =>
         /\ store' = store
         /\ Len(rows'[u]) = Min({BatchSize, Count(store)})
         /\ Range(rows'[u]) \subseteq Range(store)
         /\ \A i \in 1..(Len(rows'[u]) - 1) :
              rows'[u][i].rowid < rows'[u][i + 1].rowid
         /\ \A i \in 1..Len(store) :
              store[i] \notin Range(rows'[u]) =>
                \A j \in 1..Len(rows'[u]) : rows'[u][j].rowid < store[i].rowid]_vars

C20_Witness ==
  /\ upc[1] = "upload"
  /\ Len(rows[1]) = BatchSize
  /\ Count(store) > BatchSize
  /\ rows[1][1].rowid > 1

\* The rowids a delete can be called with.
IdSets == SUBSET (1..(MaxRecords + 1))

\* C21: deleting the batch of the uploader and then any set of rowids leaves
\* the table as one delete of the union does; a delete of rowids that are not
\* in the table changes nothing; the delete statement of a cycle removes the
\* rows with the given rowids that are still there, leaves every other row
\* as it is and goes on without an error when some are gone.
C21_DeleteAlgebra ==
  \A B \in IdSets :
    /\ DeleteRows(DeleteRows(store, RowIds(rows[1])), B)
         = DeleteRows(store, RowIds(rows[1]) \cup B)
    /\ DeleteRows(DeleteRows(store, B), B) = DeleteRows(store, B)
    /\ B \cap RowIds(store) = {} => DeleteRows(store, B) = store
    /\ \A i \in 1..Len(store) :
         store[i].rowid \notin B => \E j \in 1..Len(DeleteRows(store, B)) :
                                      DeleteRows(store, B)[j] = store[i]

C21_DeleteIsIdempotent ==
  /\ []C21_DeleteAlgebra
  /\ [][(upc[1] = "delete" /\ upc'[1] # "delete") =>
          /\ upc'[1] = "loop"
          /\ Range(store') = {r \in Range(store) : r.rowid \notin RowIds(rows[1])}]_vars

C21_Witness ==
  /\ upc[1] = "loop"
  /\ deletedBy[1] # {}
  /\ deliveredBy[1] \ deletedBy[1] # {}
  /\ Len(store) > 0

\* C22: with no statement failing, the event is looked at only between two
\* cycles: a run that returned has deleted every batch its destinations
\* accepted, it made at most one select with the event set, it takes no step
\* after returning, and once the event is set the run does return.
C22_ReturnedAfterWholeCycles ==
  /\ upc[1] = "returned" =>
       /\ deliveredBy[1] \subseteq deletedBy[1]
       /\ ~ENABLED RunStep(1)
  /\ selAfterStop[1] <= 1

C22_StopNeverSplitsCycle ==
  /\ []C22_ReturnedAfterWholeCycles
  /\ (stop[1] ~> (upc[1] = "returned"))

C22_Witness ==
  /\ upc[1] = "returned"
  /\ selAfterStop[1] = 0
  /\ Cardinality(deletedBy[1]) = BatchSize
  /\ Len(store) > 0

\* C23: every transaction of the thread, in the periodic loop and in the
\* final flush, inserts at least one and at most batch_size rows, and the
\* thread never holds more than batch_size rows.
C23_InsertsAtMostBatchSize ==
  /\ [](Len(trows) <= CacheBatchSize)
  /\ [][store' # store =>
          /\ Len(store') - Len(store) >= 1
          /\ Len(store') - Len(store) <= CacheBatchSize]_vars

C23_Witness ==
  /\ tpc = "final"
  /\ Len(store) = CacheBatchSize
  /\ Len(queue) + Len(store) > CacheBatchSize + 1
  /\ ~ticked

\* C24 (as claimed): __enter__ is not left waiting for the event when the
\* thread has ended without setting it.
C24_EnterDoesNotBlockForever ==
  (apc = "entering" /\ tpc \in {"dead", "failed"}) => ENABLED Entered

\* C25 (as claimed): leaving a Producer scope that has no connection (a
\* second time, or without having entered) returns without an error.
C25_ExitIsIdempotent ==
  [][(~hconn /\ hlast' # hlast /\ hlast' \in {"exit", "exit_raised"}) =>
       hlast' = "exit"]_vars

\* C25 (amended): leaving a Producer scope that has no connection raises
\* ValueError and changes nothing; leaving it with a connection closes the
\* connection and leaves the table as it is.
C25_ExitWithoutConnectionRaises ==
  [][(hlast' # hlast /\ hlast' \in {"exit", "exit_raised"}) =>
       /\ hlast' = (IF hconn THEN "exit" ELSE "exit_raised")
       /\ ~hconn'
       /\ store' = store]_vars

C25_Witness ==
  /\ hlast = "exit_raised"
  /\ ~hconn
  /\ Len(store) > 0

\* C26: a put on a Producer with a connection returns with all its line
\* protocols committed as the newest rows of the table, in the order given,
\* where the select of any other connection finds them; a put without a
\* connection raises and inserts nothing.
C26_DirectPutIsDurable ==
  [][nextRec' # nextRec =>
       IF hconn
         THEN /\ hlast' = "put"
              /\ LpSeq(store') =
                   LpSeq(store) \o [i \in 1..(nextRec' - nextRec) |-> nextRec + i - 1]
              /\ SubSeq(store', 1, Len(store)) = store
         ELSE /\ hlast' = "put_raised"
              /\ store' = store]_vars

C26_Witness ==
  /\ hlast = "put_raised"
  /\ upc[1] = "upload"
  /\ Len(rows[1]) = MaxPut
  /\ nextRec > MaxPut + 1

\* C27 (as claimed): a config that was accepted has only positive timeouts
\* and intervals and a batch size of at least 1.
C27_AcceptedConfigIsAllPositive ==
  cfgState = "ok" =>
    /\ cfg.timeout_s > 0
    /\ cfg.commit_interval_s > 0
    /\ cfg.sample_interval_s > 0
    /\ cfg.batch_size >= 1

\* C27 (amended): the config is accepted exactly when timeout and commit
\* interval are positive, the batch size is at least 1 and the sample
\* interval is not negative (0 is a valid sample interval); until it is
\* accepted no thread is started and no connection is opened.
C27_ConfigCheckedAtConstruction ==
  /\ cfgState # "new" =>
       (cfgState = "ok" <=>
          /\ cfg.timeout_s > 0
          /\ cfg.commit_interval_s > 0
          /\ cfg.sample_interval_s >= 0
          /\ cfg.batch_size >= 1)
  /\ cfgState # "ok" => (tpc = "new" /\ apc = "out" /\ ~isOpen)

C27_Witness ==
  /\ cfgState = "ok"
  /\ cfg.sample_interval_s = 0
  /\ apc = "in"

\* C28: a cycle whose select returned no row makes no write call and its
\* delete removes nothing: the steps of that cycle leave the table and what
\* the destinations got as they are.
C28_EmptyCycleChangesNothing ==
  [][\A u \in Uploaders :
       (upc[u] \in {"upload", "delete"} /\ Len(rows[u]) = 0 /\ upc'[u] # upc[u]) =>
         /\ store' = store
         /\ written' = written
         /\ calls'[u] = <<>>
         /\ upc'[u] \in {"delete", "loop"}]_vars

C28_Witness ==
  /\ upc[1] = "delete"
  /\ Len(rows[1]) = 0
  /\ calls[1] = <<>>
  /\ Len(store) > 0

\* C29: the event is set exactly while the thread is between the end of its
\* initialisation and the end of its final flush; it is clear before, and
\* after the thread ended in any way (a failed start, a raising INSERT, the
\* normal end); a put call made when the thread has ended raises and
\* enqueues nothing.
C29_OpenWhileThreadServes ==
  isOpen <=> tpc \in {"sleep", "get", "insert", "final", "fget", "finsert", "closing"}

C29_OpenFlagFollowsThread ==
  /\ []C29_OpenWhileThreadServes
  /\ [][(tpc \in {"dead", "failed"} /\ nextRec' # nextRec) =>
          /\ queue' = queue
          /\ ppc' = "idle"
          /\ Cardinality(rejected') > Cardinality(rejected)]_vars

C29_Witness ==
  /\ tpc = "dead"
  /\ insertFailed
  /\ \E r \in rejected : \E i \in 1..Len(putDone) : r > putDone[i]

C34_MaxRowidIsGreatestOrNone ==
  [][maxRowidCalls' # maxRowidCalls =>
       /\ store' = store
       /\ (maxRowid' = <<>>) <=> (Len(store) = 0)
       /\ maxRowid' # <<>> =>
            /\ maxRowid'[1] \in RowIds(store)
            /\ \A id \in RowIds(store) : id <= maxRowid'[1]]_vars

\* A call answered with a rowid above the number of rows: rows below it were
\* deleted.
C34_Witness ==
  /\ maxRowidCalls = 1
  /\ maxRowid # <<>>
  /\ Len(store) > 0
  /\ maxRowid = SelectMaxRowid(store)
  /\ maxRowid[1] > Len(store)
  /\ deletedBy[1] # {}


\* The number of windows of an exact partition: ceil(a / b) in integers.
ExactCeil(a, b) == (a + b - 1) \div b

\* C35: a step of zero or below is rejected when the iterator is built, and
\* for a positive step the iteration ends without error having yielded
\* ceil((stop - start) / step) windows, the first starting at start, each
\* starting where the one before stopped, each non-empty and at most step
\* long, the last stopping at stop.
C35_WindowsPartitionRange ==
  /\ it.state # "new" => ((it.state = "rejected") <=> (step <= 0))
  /\ it.state # "raised"
  /\ it.state = "exhausted" =>
       /\ Len(windows) = ExactCeil(tsRange.stop - tsRange.start, step)
       /\ windows[1].start = tsRange.start
       /\ \A k \in 1..(Len(windows) - 1) : windows[k + 1].start = windows[k].stop
       /\ \A k \in 1..Len(windows) :
            /\ windows[k].start < windows[k].stop
            /\ windows[k].stop - windows[k].start <= step
       /\ windows[Len(windows)].stop = tsRange.stop


\* C36: a copy is issued only right after a test of the stop event that
\* found it not set, and it is the copy of the next window the iterator
\* yielded, so the windows are copied in ascending order, each once; once the
\* loop has seen the event set, run issues no copy any more; and a run that
\* returns without having seen the event set has copied every window of the
\* iterator.
C36_StopCheckedBeforeEveryCopy ==
  [][/\ copied' # copied =>
          /\ mpc = "copy"
          /\ ~seenStop
          /\ Len(copied) < Len(windows)
          /\ copied' = Append(copied, windows[Len(copied) + 1])
          /\ \A k \in 1..Len(copied) : copied[k].start < copied'[Len(copied')].start
     /\ mpc = "stopped" => (mpc' = "stopped" /\ copied' = copied)
     /\ (mpc' \in {"done", "stopped"} /\ ~seenStop') =>
          /\ mpc' = "done"
          /\ copied' = windows'
          /\ Len(copied') = it'.n]_vars

\* The loop saw the event set after some windows were copied and before the
\* last one.
C36_Witness ==
  /\ mpc = "stopped"
  /\ seenStop
  /\ Len(copied) >= 1
  /\ Len(copied) + 1 < it.n
  /\ Len(windows) = Len(copied) + 1


\* C37: a call makes at most MaxAttempts attempts; it makes no attempt once
\* it has returned or raised; it returns at its first successful attempt,
\* giving that attempt's result; and it raises only when MaxAttempts attempts
\* have all failed, with the exception of the last of them.
C37_AtMostMaxAttempts ==
  [][/\ Len(attempts') <= MaxAttempts
     /\ qpc \in {"returned", "raised"} => (attempts' = attempts /\ qout' = qout)
     /\ qpc' = "returned" =>
          /\ attempts'[Len(attempts')] = 0
          /\ \A k \in 1..(Len(attempts') - 1) : attempts'[k] # 0
          /\ qout' = <<Len(attempts')>>
     /\ qpc' = "raised" =>
          /\ Len(attempts') = MaxAttempts
          /\ \A k \in 1..MaxAttempts : attempts'[k] # 0
          /\ qout' = <<MaxAttempts>>
     /\ qpc' = "trying" =>
          \A k \in 1..Len(attempts') : attempts'[k] # 0]_vars

\* Every attempt failed, the first and the last with different exceptions.
C37_Witness ==
  /\ qpc = "raised"
  /\ Len(attempts) = MaxAttempts
  /\ attempts[1] # attempts[MaxAttempts]
  /\ attempts[qout[1]] = attempts[MaxAttempts]


\* The line protocols in the store that are not in the batch uploader 1
\* holds between its select and its delete: rows beyond the batch and rows
\* committed since the select.
C31_OutsideBatch ==
  IF upc[1] \in {"upload", "delete"} THEN Lps(store) \ Lps(rows[1]) ELSE {}

\* C31: with one uploader, the delete of a cycle leaves every row in the
\* store that was not in the batch the cycle selected, whenever it was
\* committed, with its rowid; and every such row is written to every
\* destination by the uploader later on, unless the uploader stops for good.
C31_LateRowsSurviveAndAreDelivered ==
  /\ [][(upc[1] = "delete" /\ upc'[1] # "delete") =>
          \A k \in 1..Len(store) :
            store[k].lp \in C31_OutsideBatch =>
              \E j \in 1..Len(store') : store'[j] = store[k]]_vars
  /\ \A r \in Records :
       \/ (r \in C31_OutsideBatch) ~> (r \in deliveredBy[1])
       \/ <>[]Halted(1)

\* The cycle is at its delete with a batch shorter than the limit, so the
\* select saw every row there was, and the store holds another row: it was
\* committed after the select.
C31_Witness ==
  /\ upc[1] = "delete"
  /\ Len(rows[1]) > 0
  /\ Len(rows[1]) < BatchSize
  /\ Len(store) > Len(rows[1])
  /\ Range(rows[1]) \subseteq Range(store)


\* The line protocols each of the two threads has handed to the queue, in
\* the order of its put calls and of the items within a call.
C32_EnqueuedA == putDone \o SubSeq(pitems, 1, pdone)
C32_EnqueuedB == putDoneB \o SubSeq(pitemsB, 1, pdoneB)
\* The rows of the store by rowid, followed by what is still on its way.
C32_Pipeline == LpSeq(store) \o trows \o queue

C32_NoDuplicateNoLoss ==
  /\ \A r \in Records :
       Occ(C32_Pipeline, r) =
         IF r \in Range(C32_EnqueuedA) \cup Range(C32_EnqueuedB) THEN 1 ELSE 0
  /\ Restrict(C32_Pipeline, Range(C32_EnqueuedA)) = C32_EnqueuedA
  /\ Restrict(C32_Pipeline, Range(C32_EnqueuedB)) = C32_EnqueuedB
  /\ \A k \in 1..(Len(store) - 1) : store[k].rowid < store[k + 1].rowid

\* C32: with two threads calling put at the same time, every line protocol
\* handed to the queue is, exactly once, in the store or on its way to it (in
\* the queue or in the batch the thread holds), never twice and never a line
\* protocol that was refused; the line protocols of one thread are in the
\* store in the order that thread put them; and when __exit__ has returned,
\* the line protocols of every put call of either thread that had returned
\* when __exit__ was called are in the store.
C32_ConcurrentPutsCommittedOnceInOrder ==
  /\ C32_NoDuplicateNoLoss
  /\ apc = "exited" =>
       /\ Restrict(LpSeq(store), Range(atExit)) = atExit
       /\ Restrict(LpSeq(store), Range(atExitB)) = atExitB

\* Both threads have put, everything is committed, and the calls of the two
\* threads were interleaved: the store is not in the order of the calls.
C32_Witness ==
  /\ apc = "exited"
  /\ Len(atExit) > 0
  /\ Len(atExitB) > 0
  /\ ppc = "idle" /\ ppcB = "idle"
  /\ Len(queue) = 0 /\ Len(trows) = 0
  /\ Lps(store) = Range(putDone) \cup Range(putDoneB)
  /\ \E j, k \in 1..Len(store) : j < k /\ store[j].lp > store[k].lp


\* The thread of the scope is not running or sleeps in its wait.
C38_ThreadIdle == tpc \in {"new", "sleep", "dead", "failed"}

\* C38: whenever the thread is idle, unfinished_tasks is the number of line
\* protocols handed to the queue and not committed to the store, and
\* task_done has been called once for every committed row; so the line
\* protocols of an INSERT that raised stay unfinished for good.
C38_UnfinishedIsAcceptedNotCommitted ==
  C38_ThreadIdle =>
    /\ unfinished =
         Cardinality((Range(C32_EnqueuedA) \cup Range(C32_EnqueuedB)) \ Lps(store))
    /\ taskDone = Len(store)
    /\ unfinished >= Len(queue)
    /\ (unfinished > Len(queue)) <=> insertFailed

\* An INSERT raised after an earlier batch was committed: the rows of the
\* failed batch are neither in the queue nor in the store and still count as
\* unfinished.
C38_Witness ==
  /\ tpc = "dead"
  /\ insertFailed
  /\ taskDone > 0
  /\ unfinished > Len(queue)
  /\ ppc = "idle"


\* A scope is active with a live thread: its owner is inside the with-block
\* and its thread is in the loop of _drain_queue.
C33_ScopeActive ==
  \/ apc = "in" /\ tpc \in {"sleep", "get", "insert"}
  \/ apcB = "in" /\ tpcB \in {"sleep", "get", "insert"}

\* C33 (as claimed): no put call raises while a scope is active with a live
\* thread, whatever happened to the other scope.
C33_PutSucceedsWhileAScopeIsActive ==
  [][(rejected' # rejected) => ~C33_ScopeActive]_vars


====
